---- MODULE Spec2Model ----
(***************************************************************************)
(* RoostLogger utilities: the Anabat interval stream decoder               *)
(* (anabat_duration) and the batch loop of main() that calls it, from      *)
(* RoostLogger_ActivityTempReport2.py, and the night / time-of-day grid    *)
(* (load_files, build_time_heatmap) of RoostLogger_ActivityHeatmap.py.     *)
(* The two scripts are separate programs: each has its own next-state      *)
(* relation, and the variables of the one keep their initial values while  *)
(* the other runs.                                                         *)
(*                                                                         *)
(* A file is a record [ts, data_pointer, bytes]: ts is the capture         *)
(* timestamp anabat_date() returns, data_pointer is the 16-bit data start  *)
(* offset the header parse yields, bytes is the mapped buffer.  Offsets    *)
(* are 0-based as in the code; bytes[k+1] is the byte at offset k.  The    *)
(* bytes before data_pointer stand for the header region, which the loop   *)
(* never reads.  Durations are kept in microseconds (the code scales the   *)
(* sum by the constant 1e-6).                                              *)
(*                                                                         *)
(* An interval, a sum or a duration is a pair <<hi, lo>> that stands for   *)
(* the integer hi * 2^16 + lo, with lo in 0 .. 2^16 - 1 and hi any         *)
(* integer: the values of a 'u4' array do not fit the integers of the      *)
(* model checker.  A 'u4' value has hi in 0 .. 2^16 - 1.                   *)
(***************************************************************************)
EXTENDS Integers, Sequences, FiniteSets, TLC

VARIABLES
    dirs,            \* input: the night directories, each a sequence of files
    long_bits,       \* input: width of the platform integer numpy sums in
    encoded_from,    \* input: the interval list a file was encoded from, or NotEncoded
    d,               \* main: index of the directory being read (1-based)
    f,               \* main: index of the file being read in dirs[d]
    dates,           \* main, load_files: dates
    timestamps,      \* main, load_files: timestamps
    counts,          \* main: counts
    durations,       \* main: durations (microseconds)
    dircount,        \* main: dircount
    total_duration,  \* main: total_duration (microseconds)
    cache,           \* what write_cache() stored, <<>> before it ran
    m,               \* anabat_duration: the mapped buffer
    size,            \* anabat_duration: size
    i,               \* anabat_duration: byte index
    intervals_us,    \* anabat_duration: intervals_us[0 .. int_i-1]
    int_i,           \* anabat_duration: int_i
    duration_s,      \* anabat_duration: the value returned (microseconds)
    max_read,        \* highest offset Byte.unpack_from returned a byte for, -1 if none
    stderr,          \* diagnostics printed by the current call or loop
    pc,              \* position in main / anabat_duration / build_time_heatmap
    exc,             \* the uncaught exception that ended the run, or "none"
    outcomes,        \* the calls of anabat_duration that ended: buffer and result
    listing,         \* input of the heatmap script: what the directory holds
    BINSIZE_MINUTES, \* input of the heatmap script: the size of a time pixel
    heatmap,         \* build_time_heatmap: heatmap[y][x], <<>> before np.zeros
    ti               \* build_time_heatmap: position of the loop in timestamps (1-based)

vars == <<dirs, long_bits, encoded_from, d, f, dates, timestamps, counts,
          durations, dircount, total_duration, cache, m, size, i,
          intervals_us, int_i, duration_s, max_read, stderr, pc, exc,
          outcomes, listing, BINSIZE_MINUTES, heatmap, ti>>

inputs == <<dirs, long_bits, encoded_from>>
main_lists == <<dates, timestamps, counts, durations>>
decoder == <<m, size, i, intervals_us, int_i, duration_s, max_read, stderr>>
heat == <<listing, BINSIZE_MINUTES, heatmap, ti>>

----------------------------------------------------------------------------
(* Bounds of the model *)

MaxLen == 4          \* longest buffer of the exhaustive single-file runs
MaxStart == 1        \* largest data_pointer of the exhaustive single-file runs
MaxDirs == 2         \* most night directories in a batch
MaxFiles == 2        \* most files in a night directory
MaxIntervals == 3    \* longest interval list that is encoded
MaxTail == 2         \* most bytes, or intervals, after a full-length recording
MaxDecodes == 4      \* most files of a directory in which recordings come up again

(* Program constants *)

Capacity == 16384    \* np.empty(2**14, ...)
W == 65536           \* 2^16, the weight of the high half of a pair

----------------------------------------------------------------------------
(* Arithmetic helpers *)

RECURSIVE Pow2(_)
Pow2(n) == IF n = 0 THEN 1 ELSE 2 * Pow2(n - 1)

(* a & b, bit by bit from the lowest *)
BitAndOf[a \in Nat, b \in Nat] ==
    IF a = 0 \/ b = 0 THEN 0
    ELSE 2 * BitAndOf[a \div 2, b \div 2] + (IF a % 2 = 1 /\ b % 2 = 1 THEN 1 ELSE 0)

BitAnd(a, b) == BitAndOf[a, b]

(* a | b, bit by bit from the lowest *)
BitOrOf[a \in Nat, b \in Nat] ==
    IF a = 0 THEN b
    ELSE IF b = 0 THEN a
    ELSE 2 * BitOrOf[a \div 2, b \div 2] + (IF a % 2 = 1 \/ b % 2 = 1 THEN 1 ELSE 0)

BitOr(a, b) == BitOrOf[a, b]

ShiftLeft(a, n) == a * Pow2(n)

Max(a, b) == IF a >= b THEN a ELSE b

(* Pairs <<hi, lo>> *)
Wide(n) == <<n \div W, n % W>>

WAdd(a, b) == <<a[1] + b[1] + ((a[2] + b[2]) \div W), (a[2] + b[2]) % W>>

WAddInt(a, n) == <<a[1] + ((a[2] + n) \div W), (a[2] + n) % W>>

Zero == <<0, 0>>

(* The sum of s[lo .. hi], halving the range *)
RECURSIVE SumRange(_, _, _)
SumRange(s, lo, hi) ==
    IF lo > hi THEN Zero
    ELSE IF lo = hi THEN s[lo]
    ELSE LET mid == (lo + hi) \div 2
         IN  WAdd(SumRange(s, lo, mid), SumRange(s, mid + 1, hi))

SeqSum(s) == SumRange(s, 1, Len(s))

----------------------------------------------------------------------------
(* A read that trusts the offset and yields a zero byte beyond the buffer *)
Unpack_unchecked(mm, off) == IF off < Len(mm) THEN mm[off + 1] ELSE 0

(* Byte.unpack_from(m, off): the byte at offset off, or -1 when struct     *)
(* raises struct.error because the buffer has no byte there.               *)
Unpack(mm, off) == IF off < Len(mm) THEN mm[off + 1] ELSE -1

(* offset = byte if byte < 2**6 else byte - 2**7 *)
Offset(byte) == IF byte < 64 THEN byte ELSE byte - 128

(* The low six bits of the opcode byte *)
LowBits_mask6(byte) == BitAnd(byte, 63)

(* byte & 0b00011111 *)
LowBits(byte) == BitAnd(byte, 31)

(* Storing a value into the 'u4' array keeps its low 32 bits. *)
StoreU4(v) == <<v[1] % W, v[2]>>

(* np.sum(intervals_us): the accumulator of an unsigned array narrower     *)
(* than the platform long is the platform unsigned long, 32 bits or 64     *)
(* bits wide.  At most Capacity values below 2^32 are summed, which stays  *)
(* below 2^64.                                                             *)
NpSum(s, bits) ==
    IF bits = 32 THEN <<SeqSum(s)[1] % W, SeqSum(s)[2]>> ELSE SeqSum(s)

----------------------------------------------------------------------------
(* The inputs *)

Bytes == {0, 44, 64, 128, 129, 160, 193, 232}

RECURSIVE SeqsUpTo(_, _)
SeqsUpTo(S, n) ==
    IF n = 0 THEN {<<>>}
    ELSE LET shorter == SeqsUpTo(S, n - 1)
         IN  shorter \cup {Append(s, x) : s \in {t \in shorter : Len(t) = n - 1}, x \in S}

File(ts, ptr, bytes) == [ts |-> ts, data_pointer |-> ptr, bytes |-> bytes]

SmallFiles == {File(1, p, b) : p \in 0..MaxStart, b \in SeqsUpTo(Bytes, MaxLen)}

NotEncoded == << <<-1, -1>> >>

CurrentFile == dirs[d][f]

(* What a call of anabat_duration() is given: the bytes of the file and    *)
(* the data start offset its header holds.                                 *)
Buffer == [bytes |-> m, data_pointer |-> CurrentFile.data_pointer]

(* The heatmap script has not run *)
NoHeatmap ==
    /\ listing = [subdirs |-> <<>>, files |-> <<>>]
    /\ BINSIZE_MINUTES = 15
    /\ heatmap = <<>>
    /\ ti = 0

----------------------------------------------------------------------------
(* The state after main() has set up its lists and found no cache *)

Start ==
    /\ d = 1
    /\ f = 1
    /\ dates = <<>>
    /\ timestamps = <<>>
    /\ counts = <<>>
    /\ durations = <<>>
    /\ dircount = 0
    /\ total_duration = Zero
    /\ cache = <<>>
    /\ m = <<>>
    /\ size = 0
    /\ i = 0
    /\ intervals_us = <<>>
    /\ int_i = 0
    /\ duration_s = Zero
    /\ max_read = -1
    /\ stderr = <<>>
    /\ pc = "listdir"
    /\ exc = "none"
    /\ outcomes = <<>>
    /\ NoHeatmap

Init ==
    /\ \E file \in SmallFiles : dirs = << <<file>> >>
    /\ long_bits \in {32, 64}
    /\ encoded_from = NotEncoded
    /\ Start

(* A batch: night directories holding recordings that decode, that end in  *)
(* the middle of a record, and that carry a status marker.                 *)
BatchFiles ==
    { File(1, 0, <<129, 44, 64>>),
      File(2, 0, <<129, 44, 160, 0>>),
      File(3, 1, <<0, 232, 7, 193, 0, 0, 0>>) }

InitBatch ==
    /\ dirs \in SeqsUpTo(SeqsUpTo(BatchFiles, MaxFiles), MaxDirs)
    /\ long_bits \in {32, 64}
    /\ encoded_from = NotEncoded
    /\ Start

(* One night directory in which recordings come up again: the recordings   *)
(* of a batch and one that has the bytes of another with its data at the   *)
(* first byte.                                                             *)
RepeatFiles == BatchFiles \cup {File(4, 0, <<0, 232, 7, 193, 0, 0, 0>>)}

InitRepeat ==
    /\ \E files \in SeqsUpTo(RepeatFiles, MaxDecodes) : dirs = <<files>>
    /\ long_bits \in {32, 64}
    /\ encoded_from = NotEncoded
    /\ Start

(* The byte streams of the format: a record of one of the four emitting    *)
(* classes for the interval v that follows the interval prev (-1: none).   *)
Classes == {"delta", "abs13", "abs21", "abs29"}

Encodable(prev, v, class) ==
    IF class = "delta" THEN prev >= 0 /\ v - prev >= -64 /\ v - prev <= 63
    ELSE IF class = "abs13" THEN v < 8192
    ELSE IF class = "abs21" THEN v < 2097152
    ELSE v < 536870912

Record(prev, v, class) ==
    IF class = "delta" THEN <<(v - prev) % 128>>
    ELSE IF class = "abs13" THEN <<128 + (v \div 256), v % 256>>
    ELSE IF class = "abs21" THEN <<160 + (v \div 65536), (v \div 256) % 256, v % 256>>
    ELSE <<192 + (v \div 16777216), (v \div 65536) % 256, (v \div 256) % 256, v % 256>>

RECURSIVE EncodableFrom(_, _, _)
EncodableFrom(prev, ivs, cls) ==
    IF ivs = <<>> THEN TRUE
    ELSE /\ Encodable(prev, ivs[1], cls[1])
         /\ EncodableFrom(ivs[1], Tail(ivs), Tail(cls))

RECURSIVE EncodeFrom(_, _, _)
EncodeFrom(prev, ivs, cls) ==
    IF ivs = <<>> THEN <<>>
    ELSE Record(prev, ivs[1], cls[1]) \o EncodeFrom(ivs[1], Tail(ivs), Tail(cls))

Intervals == {0, 5, 1000, 8192, 2097152, 536870911}

WideSeq(ivs) == [k \in 1..Len(ivs) |-> Wide(ivs[k])]

(* A header region of ptr bytes in front of the stream *)
Header(ptr) == [k \in 1..ptr |-> 255]

InitEncoded ==
    /\ \E ivs \in SeqsUpTo(Intervals, MaxIntervals) :
       \E cls \in [1..Len(ivs) -> Classes] :
       \E ptr \in 0..MaxStart :
          /\ EncodableFrom(-1, ivs, cls)
          /\ dirs = << <<File(1, ptr, Header(ptr) \o EncodeFrom(-1, ivs, cls))>> >>
          /\ encoded_from = WideSeq(ivs)
    /\ long_bits \in {32, 64}
    /\ Start

InitOther ==
    /\ \E file \in {g \in SmallFiles : Len(g.bytes) <= 2} : dirs = << <<file>> >>
    /\ long_bits \in {32, 64}
    /\ encoded_from = NotEncoded
    /\ Start

InitRoundTrip == InitEncoded \/ InitOther

(* A recording as long as the interval array.  FullBytes encodes            *)
(* Capacity - 1 intervals of 0 microseconds: the record 0x80 0x00 and then  *)
(* Capacity - 2 delta bytes 0x00.  A tail follows it: any bytes, or the     *)
(* records of further intervals.  InitFull is the state main() and          *)
(* anabat_duration() are in when the scan loop has consumed FullBytes,      *)
(* with a second night directory still to be read.                          *)
FullBytes == [k \in 1..Capacity |-> IF k = 1 THEN 128 ELSE 0]

FullIntervals == [k \in 1..(Capacity - 1) |-> Zero]

FullTails ==
    {[bytes |-> b, list |-> NotEncoded] : b \in SeqsUpTo(Bytes, MaxTail)}
    \cup
    {[bytes |-> EncodeFrom(0, r[1], r[2]), list |-> FullIntervals \o WideSeq(r[1])] :
        r \in {q \in UNION {{<<ivs, cls>> : cls \in [1..Len(ivs) -> Classes]} :
                                ivs \in SeqsUpTo(Intervals, MaxTail)} :
                 EncodableFrom(0, q[1], q[2])}}

InitFull ==
    /\ \E tail \in FullTails :
          /\ dirs = << <<File(1, 0, FullBytes \o tail.bytes)>>,
                       <<File(2, 0, <<129, 44>>)>> >>
          /\ encoded_from = tail.list
          /\ m = FullBytes \o tail.bytes
          /\ size = Capacity + Len(tail.bytes)
    /\ long_bits \in {32, 64}
    /\ d = 1
    /\ f = 1
    /\ dates = <<1>>
    /\ timestamps = <<1>>
    /\ counts = <<>>
    /\ durations = <<>>
    /\ dircount = 1
    /\ total_duration = Zero
    /\ cache = <<>>
    /\ i = Capacity
    /\ intervals_us = FullIntervals
    /\ int_i = Capacity - 1
    /\ duration_s = Zero
    /\ max_read = Capacity - 1
    /\ stderr = <<>>
    /\ pc = "decode"
    /\ exc = "none"
    /\ outcomes = <<>>
    /\ NoHeatmap

----------------------------------------------------------------------------
(* main(): for subdir in os.listdir(dirname) -- enter the next night       *)
(* directory.  dirs holds the entries that pass the directory filter; the  *)
(* night of an entry is written as its index.                              *)
main_enter_dir ==
    /\ pc = "listdir"
    /\ d <= Len(dirs)
    /\ dates' = Append(dates, d)
    /\ dircount' = 0
    /\ total_duration' = Zero
    /\ f' = 1
    /\ pc' = "glob"
    /\ UNCHANGED <<inputs, heat, outcomes, d, timestamps, counts, durations, cache, decoder, exc>>

(* The next file with the interval array and its index kept from the call *)
(* before, as if they were set up once for the module.                     *)
main_open_file_keep ==
    /\ pc = "glob"
    /\ f <= Len(dirs[d])
    /\ dircount' = dircount + 1
    /\ timestamps' = Append(timestamps, CurrentFile.ts)
    /\ m' = CurrentFile.bytes
    /\ size' = Len(CurrentFile.bytes)
    /\ i' = CurrentFile.data_pointer
    /\ duration_s' = Zero
    /\ max_read' = -1
    /\ stderr' = <<>>
    /\ pc' = "decode"
    /\ UNCHANGED <<inputs, heat, outcomes, d, f, dates, counts, durations,
                   total_duration, cache, exc, intervals_us, int_i>>

(* main(): the next file of the directory: count it, take its timestamp,   *)
(* and enter anabat_duration() up to the start of the scan loop.  The      *)
(* files have a complete header: anabat_date() and the header parse yield  *)
(* the file's ts and data_pointer.                                         *)
main_open_file ==
    /\ pc = "glob"
    /\ f <= Len(dirs[d])
    /\ dircount' = dircount + 1
    /\ timestamps' = Append(timestamps, CurrentFile.ts)
    /\ m' = CurrentFile.bytes
    /\ size' = Len(CurrentFile.bytes)
    /\ i' = CurrentFile.data_pointer
    /\ intervals_us' = <<>>
    /\ int_i' = 0
    /\ duration_s' = Zero
    /\ max_read' = -1
    /\ stderr' = <<>>
    /\ pc' = "decode"
    /\ UNCHANGED <<inputs, heat, outcomes, d, f, dates, counts, durations, total_duration, cache, exc>>

(* An exception nothing catches leaves anabat_duration() and main(). *)
Raise(kind, cursor, read) ==
    /\ exc' = kind
    /\ pc' = "aborted"
    /\ i' = cursor
    /\ max_read' = read
    /\ outcomes' = Append(outcomes, [buffer |-> Buffer, result |-> <<kind>>])
    /\ UNCHANGED <<inputs, heat, d, f, main_lists, dircount, total_duration, cache,
                   m, size, intervals_us, int_i, duration_s, stderr>>

(* The store without the loop's i += 1 *)
Store_noadvance(value, cursor, read) ==
    IF int_i >= Capacity
    THEN Raise("IndexError", cursor, read)
    ELSE /\ intervals_us' = Append(intervals_us, StoreU4(value))
         /\ int_i' = int_i + 1
         /\ i' = cursor
         /\ max_read' = read
         /\ UNCHANGED <<inputs, heat, outcomes, d, f, main_lists, dircount, total_duration, cache,
                        m, size, duration_s, stderr, pc, exc>>

(* intervals_us[int_i] = value; int_i += 1; then the loop's i += 1 *)
Store(value, cursor, read) ==
    IF int_i >= Capacity
    THEN Raise("IndexError", cursor, read)
    ELSE /\ intervals_us' = Append(intervals_us, StoreU4(value))
         /\ int_i' = int_i + 1
         /\ i' = cursor + 1
         /\ max_read' = read
         /\ UNCHANGED <<inputs, heat, outcomes, d, f, main_lists, dircount, total_duration, cache,
                        m, size, duration_s, stderr, pc, exc>>

(* The delta branch taking a leading delta as the first interval *)
decode_delta_append ==
    /\ pc = "decode"
    /\ i < size
    /\ LET byte == Unpack(m, i)
           offset == Offset(byte)
       IN  /\ byte <= 127
           /\ IF int_i > 0
              THEN Store(WAddInt(intervals_us[int_i], offset), i, Max(max_read, i))
              ELSE Store(WAddInt(Zero, offset), i, Max(max_read, i))

(* The delta branch leaving a leading delta where it is: the byte is not   *)
(* reported and the cursor stays on it.                                    *)
decode_delta_stuck ==
    /\ pc = "decode"
    /\ i < size
    /\ LET byte == Unpack(m, i)
           offset == Offset(byte)
       IN  /\ byte <= 127
           /\ IF int_i > 0
              THEN Store(WAddInt(intervals_us[int_i], offset), i, Max(max_read, i))
              ELSE /\ max_read' = Max(max_read, i)
                   /\ UNCHANGED <<inputs, heat, outcomes, d, f, main_lists, dircount,
                                  total_duration, cache, m, size, i, intervals_us,
                                  int_i, duration_s, stderr, pc, exc>>

(* if byte <= 0x7F *)
decode_delta ==
    /\ pc = "decode"
    /\ i < size
    /\ LET byte == Unpack(m, i)
           offset == Offset(byte)
       IN  /\ byte <= 127
           /\ IF int_i > 0
              THEN Store(WAddInt(intervals_us[int_i], offset), i, Max(max_read, i))
              ELSE /\ stderr' = Append(stderr, "leading_delta")
                   /\ i' = i + 1
                   /\ max_read' = Max(max_read, i)
                   /\ UNCHANGED <<inputs, heat, outcomes, d, f, main_lists, dircount, total_duration,
                                  cache, m, size, intervals_us, int_i, duration_s, pc, exc>>

(* elif 0x80 <= byte <= 0x9F *)
decode_abs13 ==
    /\ pc = "decode"
    /\ i < size
    /\ LET byte == Unpack(m, i)
           b1 == Unpack(m, i + 1)
       IN  /\ 128 <= byte /\ byte <= 159
           /\ IF b1 = -1 THEN Raise("struct.error", i + 1, Max(max_read, i))
              ELSE Store(Wide(BitOr(ShiftLeft(LowBits(byte), 8), b1)),
                         i + 1, Max(max_read, i + 1))

(* elif 0xA0 <= byte <= 0xBF *)
decode_abs21 ==
    /\ pc = "decode"
    /\ i < size
    /\ LET byte == Unpack(m, i)
           b1 == Unpack(m, i + 1)
           b2 == Unpack(m, i + 2)
       IN  /\ 160 <= byte /\ byte <= 191
           /\ IF b1 = -1 THEN Raise("struct.error", i + 1, Max(max_read, i))
              ELSE IF b2 = -1 THEN Raise("struct.error", i + 2, Max(max_read, i + 1))
              ELSE Store(Wide(BitOr(BitOr(ShiftLeft(LowBits(byte), 16), ShiftLeft(b1, 8)), b2)),
                         i + 2, Max(max_read, i + 2))

(* elif 0xC0 <= byte <= 0xDF *)
decode_abs29 ==
    /\ pc = "decode"
    /\ i < size
    /\ LET byte == Unpack(m, i)
           b1 == Unpack(m, i + 1)
           b2 == Unpack(m, i + 2)
           b3 == Unpack(m, i + 3)
       IN  /\ 192 <= byte /\ byte <= 223
           /\ IF b1 = -1 THEN Raise("struct.error", i + 1, Max(max_read, i))
              ELSE IF b2 = -1 THEN Raise("struct.error", i + 2, Max(max_read, i + 1))
              ELSE IF b3 = -1 THEN Raise("struct.error", i + 3, Max(max_read, i + 2))
              ELSE Store(Wide(BitOr(BitOr(BitOr(ShiftLeft(LowBits(byte), 24), ShiftLeft(b1, 16)),
                                          ShiftLeft(b2, 8)), b3)),
                         i + 3, Max(max_read, i + 3))

(* The status branch skipping as many bytes as the dot count says *)
decode_status_skipdots ==
    /\ pc = "decode"
    /\ i < size
    /\ LET byte == Unpack(m, i)
           dotcount == Unpack(m, i + 1)
       IN  /\ 224 <= byte /\ byte <= 255
           /\ IF dotcount = -1 THEN Raise("struct.error", i + 1, Max(max_read, i))
              ELSE /\ stderr' = Append(stderr, "unsupported")
                   /\ i' = i + 2 + dotcount
                   /\ max_read' = Max(max_read, i + 1)
                   /\ UNCHANGED <<inputs, heat, outcomes, d, f, main_lists, dircount, total_duration,
                                  cache, m, size, intervals_us, int_i, duration_s, pc, exc>>

(* elif 0xE0 <= byte <= 0xFF: status byte and dot count, not supported *)
decode_status ==
    /\ pc = "decode"
    /\ i < size
    /\ LET byte == Unpack(m, i)
           dotcount == Unpack(m, i + 1)
       IN  /\ 224 <= byte /\ byte <= 255
           /\ IF dotcount = -1 THEN Raise("struct.error", i + 1, Max(max_read, i))
              ELSE /\ stderr' = Append(stderr, "unsupported")
                   /\ i' = i + 2
                   /\ max_read' = Max(max_read, i + 1)
                   /\ UNCHANGED <<inputs, heat, outcomes, d, f, main_lists, dircount, total_duration,
                                  cache, m, size, intervals_us, int_i, duration_s, pc, exc>>

(* The loop has ended: slice, sum, return; main() adds the duration to the *)
(* directory's total and goes on to the next file.                         *)
anabat_duration_return ==
    /\ pc = "decode"
    /\ i >= size
    /\ duration_s' = NpSum(intervals_us, long_bits)
    /\ total_duration' = WAdd(total_duration, duration_s')
    /\ stderr' = Append(stderr, "summary")
    /\ f' = f + 1
    /\ pc' = "glob"
    /\ outcomes' = Append(outcomes, [buffer |-> Buffer,
                                     result |-> <<"return", intervals_us, duration_s'>>])
    /\ UNCHANGED <<inputs, heat, d, main_lists, dircount, cache, m, size, i,
                   intervals_us, int_i, max_read, exc>>

(* main(): the directory has no more files *)
main_end_dir ==
    /\ pc = "glob"
    /\ f > Len(dirs[d])
    /\ counts' = Append(counts, dircount)
    /\ durations' = Append(durations, total_duration)
    /\ d' = d + 1
    /\ pc' = "listdir"
    /\ UNCHANGED <<inputs, heat, outcomes, f, dates, timestamps, dircount, total_duration, cache,
                   decoder, exc>>

(* main(): write_cache(dates, timestamps, counts, durations) *)
write_cache ==
    /\ pc = "listdir"
    /\ d > Len(dirs)
    /\ cache' = <<dates, timestamps, counts, durations>>
    /\ pc' = "done"
    /\ UNCHANGED <<inputs, heat, outcomes, d, f, main_lists, dircount, total_duration, decoder, exc>>

Next ==
    \/ main_enter_dir
    \/ main_open_file
    \/ decode_delta
    \/ decode_abs13
    \/ decode_abs21
    \/ decode_abs29
    \/ decode_status
    \/ anabat_duration_return
    \/ main_end_dir
    \/ write_cache

Spec == Init /\ [][Next]_vars

SpecBatch == InitBatch /\ [][Next]_vars

SpecRoundTrip == InitRoundTrip /\ [][Next]_vars

SpecFull == InitFull /\ [][Next]_vars

SpecRepeat == InitRepeat /\ [][Next]_vars

(* One file whose bytes are opcodes of the five classes.  The interpreter  *)
(* runs the loop of a call until it ends: some step of main() or           *)
(* anabat_duration() is taken as long as one can be.                       *)
OpcodeBytes == {0, 129, 160, 193, 232}

InitOpcodes ==
    /\ \E p \in 0..MaxStart : \E b \in SeqsUpTo(OpcodeBytes, MaxLen) :
          dirs = << <<File(1, p, b)>> >>
    /\ long_bits \in {32, 64}
    /\ encoded_from = NotEncoded
    /\ Start

FairSpec == InitOpcodes /\ [][Next]_vars /\ WF_vars(Next)

----------------------------------------------------------------------------
(* RoostLogger_ActivityHeatmap.py: load_files() and build_time_heatmap().  *)
(* The histogram loop of main() in RoostLogger_ActivityReport.py is the    *)
(* same code with BINSIZE_MINS = 10.                                       *)
(*                                                                         *)
(* A timestamp is a record [date, hour, minute]: date is the number of the *)
(* calendar day, so that the day before date is date - 1.  listing is what *)
(* the directory holds: subdirs is the nights the names of its night       *)
(* directories parse to, in os.listdir order; files is the timestamps of   *)
(* the Anabat files in the order the loops reach them, the files of the    *)
(* night directories if there is one, the files of the flat directory      *)
(* otherwise.                                                              *)

MaxStamps == 3       \* most Anabat files of a listing

(* The sizes of a time pixel that divide the hour *)
BinSizes == {b \in 1..60 : 60 % b = 0}

(* The sizes the two scripts are shipped with *)
ShippedBinSizes == {10, 15}

Stamp(date, hour, minute) == [date |-> date, hour |-> hour, minute |-> minute]

(* Captures of two days: after midnight, in the afternoon, late at night *)
Stamps == {Stamp(date, hour, 50) : date \in {1, 2}, hour \in {2, 13, 23}}

NightLists == {<<>>, <<1>>, <<2>>, <<1, 2>>, <<2, 1>>}

Listings == [subdirs : NightLists, files : SeqsUpTo(Stamps, MaxStamps)]

(* _BINS_PER_HOUR = 60 / BINSIZE_MINUTES, the division of two integers *)
BINS_PER_HOUR == 60 \div BINSIZE_MINUTES

(* (timestamp + timedelta(hours=-12)).date() *)
Night(timestamp) ==
    (timestamp.date * 1440 + timestamp.hour * 60 + timestamp.minute - 720) \div 1440

(* sorted(set(dates)) *)
RECURSIVE SortedSet(_)
SortedSet(S) ==
    IF S = {} THEN <<>>
    ELSE LET least == CHOOSE v \in S : \A w \in S : v <= w
         IN  <<least>> \o SortedSet(S \ {least})

(* list.index(value): the 0-based position of the first occurrence, -1 for *)
(* the ValueError of a value that is not in the list.                      *)
Index(list, value) ==
    IF \E k \in 1..Len(list) : list[k] = value
    THEN (CHOOSE k \in 1..Len(list) :
             list[k] = value /\ \A j \in 1..(k - 1) : list[j] # value) - 1
    ELSE -1

(* The row with the hour scaled by the size of a pixel *)
Row_scaled(timestamp) ==
    timestamp.hour * BINSIZE_MINUTES + (timestamp.minute \div BINSIZE_MINUTES)

(* y = timestamp.hour * _BINS_PER_HOUR + (timestamp.minute // BINSIZE_MINUTES) *)
Row(timestamp) ==
    timestamp.hour * BINS_PER_HOUR + (timestamp.minute \div BINSIZE_MINUTES)

(* np.log1p(heatmap), cell by cell *)
Log1p(grid) == [y \in DOMAIN grid |-> [x \in DOMAIN grid[y] |-> <<"log1p", grid[y][x]>>]]

(* What the heatmap script leaves alone *)
report == <<inputs, d, f, counts, durations, dircount, total_duration, cache,
            m, size, i, intervals_us, int_i, duration_s, max_read, outcomes>>

(* The state in which main(dirname) of the heatmap script is entered *)
StartHeatmap ==
    /\ dirs = <<>>
    /\ long_bits = 64
    /\ encoded_from = NotEncoded
    /\ d = 1
    /\ f = 1
    /\ dates = <<>>
    /\ timestamps = <<>>
    /\ counts = <<>>
    /\ durations = <<>>
    /\ dircount = 0
    /\ total_duration = Zero
    /\ cache = <<>>
    /\ m = <<>>
    /\ size = 0
    /\ i = 0
    /\ intervals_us = <<>>
    /\ int_i = 0
    /\ duration_s = Zero
    /\ max_read = -1
    /\ stderr = <<>>
    /\ pc = "load_files"
    /\ exc = "none"
    /\ outcomes = <<>>
    /\ heatmap = <<>>
    /\ ti = 0

(* The first, the last and the middle hours of the day *)
BinnerHours == {0, 1, 11, 12, 22, 23}

(* One file of a night directory, at every minute of these hours and with  *)
(* every size of a pixel that divides the hour.                            *)
InitBinner ==
    /\ \E hour \in BinnerHours : \E minute \in 0..59 :
          listing = [subdirs |-> <<1>>, files |-> <<Stamp(1, hour, minute)>>]
    /\ BINSIZE_MINUTES \in BinSizes
    /\ StartHeatmap

(* Night directories or a flat directory with several files *)
InitHeatmap ==
    /\ listing \in Listings
    /\ BINSIZE_MINUTES \in ShippedBinSizes
    /\ StartHeatmap

(* load_files(dirname): the nights of the night directories and the        *)
(* timestamps of their files, or, when there is neither, the files of the  *)
(* flat directory and the sorted set of their nights.                      *)
load_files ==
    /\ pc = "load_files"
    /\ IF listing.subdirs # <<>>
       THEN /\ dates' = listing.subdirs
            /\ timestamps' = listing.files
       ELSE /\ dates' = SortedSet({Night(listing.files[k]) : k \in 1..Len(listing.files)})
            /\ timestamps' = listing.files
    /\ pc' = "build_time_heatmap"
    /\ UNCHANGED <<report, heat, stderr, exc>>

(* heatmap = np.zeros((24*_BINS_PER_HOUR, len(dates))) *)
build_time_heatmap_zeros ==
    /\ pc = "build_time_heatmap"
    /\ heatmap' = [y \in 0..(24 * BINS_PER_HOUR - 1) |-> [x \in 0..(Len(dates) - 1) |-> 0]]
    /\ ti' = 1
    /\ pc' = "bin"
    /\ UNCHANGED <<report, listing, BINSIZE_MINUTES, dates, timestamps, stderr, exc>>

(* The loop body without the try: the ValueError leaves the function *)
build_time_heatmap_bin_raise ==
    /\ pc = "bin"
    /\ ti <= Len(timestamps)
    /\ LET timestamp == timestamps[ti]
           y == Row(timestamp)
           x == Index(dates, timestamp.date)
       IN  IF x = -1 \/ y \notin DOMAIN heatmap
           THEN /\ exc' = IF x = -1 THEN "ValueError" ELSE "IndexError"
                /\ pc' = "aborted"
                /\ UNCHANGED <<heatmap, ti, stderr>>
           ELSE /\ heatmap' = [heatmap EXCEPT ![y][x] = @ + 1]
                /\ ti' = ti + 1
                /\ UNCHANGED <<stderr, pc, exc>>
    /\ UNCHANGED <<report, listing, BINSIZE_MINUTES, dates, timestamps>>

(* for timestamp in timestamps: one pass of the loop body *)
build_time_heatmap_bin ==
    /\ pc = "bin"
    /\ ti <= Len(timestamps)
    /\ LET timestamp == timestamps[ti]
           y == Row(timestamp)
           x == Index(dates, timestamp.date)
       IN  IF x = -1
           THEN /\ stderr' = Append(stderr, "ValueError")
                /\ ti' = ti + 1
                /\ UNCHANGED <<heatmap, pc, exc>>
           ELSE IF y \notin DOMAIN heatmap
           THEN /\ exc' = "IndexError"
                /\ pc' = "aborted"
                /\ UNCHANGED <<heatmap, ti, stderr>>
           ELSE /\ heatmap' = [heatmap EXCEPT ![y][x] = @ + 1]
                /\ ti' = ti + 1
                /\ UNCHANGED <<stderr, pc, exc>>
    /\ UNCHANGED <<report, listing, BINSIZE_MINUTES, dates, timestamps>>

(* if logscale: heatmap = np.log1p(heatmap); return heatmap *)
build_time_heatmap_return ==
    /\ pc = "bin"
    /\ ti > Len(timestamps)
    /\ heatmap' = Log1p(heatmap)
    /\ pc' = "plot"
    /\ UNCHANGED <<report, listing, BINSIZE_MINUTES, dates, timestamps, ti, stderr, exc>>

NextHeatmap ==
    \/ load_files
    \/ build_time_heatmap_zeros
    \/ build_time_heatmap_bin
    \/ build_time_heatmap_return

SpecHeatmap == InitHeatmap /\ [][NextHeatmap]_vars

SpecBinner == InitBinner /\ [][NextHeatmap]_vars

----------------------------------------------------------------------------
(* Vocabulary of the properties, taken from the format description *)

InLoop == pc = "decode" /\ i < size

Opcode == m[i + 1]

SignedDelta(b) == IF b <= 63 THEN b ELSE b - 128

ExtraBytes(b) ==
    IF b <= 127 THEN 0
    ELSE IF b <= 159 THEN 1
    ELSE IF b <= 191 THEN 2
    ELSE IF b <= 223 THEN 3
    ELSE 1

RECURSIVE BigEndian(_, _, _)
BigEndian(mm, off, k) ==
    IF k = 0 THEN 0 ELSE 256 * BigEndian(mm, off, k - 1) + mm[off + k + 1]

(* (b AND 0x1F) in front of the k bytes that follow offset off *)
AbsoluteValue(mm, off) ==
    LET b == mm[off + 1]
        k == ExtraBytes(b)
    IN  (b % 32) * Pow2(8 * k) + BigEndian(mm, off, k)

RECURSIVE ExactSum(_, _)
ExactSum(s, n) == IF n = 0 THEN Zero ELSE WAdd(ExactSum(s, n - 1), s[n])

IsU4(v) == v[1] >= 0 /\ v[1] < W /\ v[2] >= 0 /\ v[2] < W

----------------------------------------------------------------------------
(* C2: a delta byte read after at least one interval emits exactly one new *)
(* interval, the previous interval plus the signed value of the byte.      *)
C2_DeltaAddsSigned ==
    [][(InLoop /\ Opcode <= 127 /\ int_i > 0)
        => /\ int_i' = int_i + 1
           /\ intervals_us' = Append(intervals_us,
                                     WAddInt(intervals_us[int_i], SignedDelta(Opcode)))]_vars

(* C3: an absolute opcode followed by enough bytes emits the low five bits *)
(* of the opcode in front of the following bytes, most significant first,  *)
(* whatever the previous interval was.                                     *)
C3_AbsoluteValue ==
    [][(InLoop /\ Opcode >= 128 /\ Opcode <= 223
          /\ i + ExtraBytes(Opcode) < size /\ exc' = "none")
        => /\ int_i' = int_i + 1
           /\ intervals_us' = Append(intervals_us, Wide(AbsoluteValue(m, i)))]_vars

C3_Witness ==
    /\ pc = "decode"
    /\ i >= 2
    /\ m[i - 1] = 129
    /\ m[i] = 44
    /\ int_i >= 1
    /\ intervals_us[int_i] = Wide(300)

C5_NoReadPastEnd ==
    /\ [](max_read < size)
    /\ [][(InLoop /\ Opcode >= 128 /\ i + ExtraBytes(Opcode) >= size)
           => /\ pc' = "aborted"
              /\ exc' = "struct.error"
              /\ int_i' = int_i
              /\ intervals_us' = intervals_us]_vars

C5_Witness ==
    /\ exc = "struct.error"
    /\ int_i >= 1
    /\ max_read = size - 1

(* C6: every iteration that completes moves the cursor by one plus the     *)
(* extra bytes of its opcode, whether or not it emitted an interval.       *)
C6_CursorAdvance ==
    [][(InLoop /\ pc' = "decode") => i' = i + 1 + ExtraBytes(Opcode)]_vars

C6_Witness ==
    /\ pc = "decode"
    /\ stderr = <<"leading_delta", "unsupported">>
    /\ i = dirs[d][f].data_pointer + 3

(* C7: every stored interval is the exact integer its opcode rule gives    *)
(* and lies in 0 .. 2^32 - 1.                                              *)
C7_StoredExact ==
    [][(InLoop /\ int_i' = int_i + 1)
        => LET exact == IF Opcode <= 127
                        THEN WAddInt(intervals_us[int_i], SignedDelta(Opcode))
                        ELSE Wide(AbsoluteValue(m, i))
           IN  intervals_us'[int_i'] = exact /\ IsU4(exact)]_vars

(* C8: a status byte followed by a count byte leaves the interval sequence *)
(* as it is, consumes exactly the two bytes and lets the decoding go on.   *)
C8_StatusSkipped ==
    [][(InLoop /\ Opcode >= 224 /\ i + 1 < size)
        => /\ intervals_us' = intervals_us
           /\ int_i' = int_i
           /\ i' = i + 2
           /\ pc' = "decode"
           /\ exc' = "none"]_vars

C8_Witness ==
    /\ pc = "decode"
    /\ stderr = <<"unsupported">>
    /\ int_i = 1
    /\ i = size
    /\ m[i] # 0

(* C9: the returned duration is the exact sum of the decoded intervals,    *)
(* and 0 with an empty sequence for an empty data region.                  *)
C9_DurationIsSum ==
    [][(pc = "decode" /\ i >= size)
        => /\ duration_s' = ExactSum(intervals_us, int_i)
           /\ (dirs[d][f].data_pointer = size => (int_i = 0 /\ duration_s' = Zero))]_vars

----------------------------------------------------------------------------
(* The call of anabat_duration() has ended, by a return or an exception *)
Returned == Len(stderr) > 0 /\ stderr[Len(stderr)] = "summary"

CallEnded == pc = "aborted" \/ (pc # "decode" /\ Returned)

(* C1: decoding a stream that encodes a list of intervals with the four    *)
(* emitting classes yields that list.                                      *)
C1_RoundTrip ==
    (encoded_from # NotEncoded /\ CallEnded)
        => (exc = "none" /\ int_i = Len(encoded_from) /\ intervals_us = encoded_from)

----------------------------------------------------------------------------
(* A file whose data region ends inside a record *)
RECURSIVE EndsInRecord(_, _)
EndsInRecord(bytes, off) ==
    /\ off < Len(bytes)
    /\ \/ off + ExtraBytes(bytes[off + 1]) >= Len(bytes)
       \/ EndsInRecord(bytes, off + 1 + ExtraBytes(bytes[off + 1]))

Fails(file) == EndsInRecord(file.bytes, file.data_pointer)

RECURSIVE GoodStamps(_)
GoodStamps(files) ==
    IF files = <<>> THEN <<>>
    ELSE (IF Fails(files[1]) THEN <<>> ELSE <<files[1].ts>>) \o GoodStamps(Tail(files))

RECURSIVE AllGoodStamps(_)
AllGoodStamps(ds) ==
    IF ds = <<>> THEN <<>> ELSE GoodStamps(ds[1]) \o AllGoodStamps(Tail(ds))

(* C10: a file that ends in a fatal error contributes nothing, every other *)
(* file of the batch is processed and the run reaches its end.             *)
C10_BatchIsolation ==
    (pc \in {"done", "aborted"})
        => /\ pc = "done"
           /\ timestamps = AllGoodStamps(dirs)
           /\ Len(counts) = Len(dirs)
           /\ \A k \in 1..Len(dirs) : counts[k] = Len(GoodStamps(dirs[k]))
           /\ cache = <<dates, timestamps, counts, durations>>

----------------------------------------------------------------------------
(* Vocabulary of the binner *)

(* The loop of build_time_heatmap() is about to bin timestamps[ti] *)
Binning == pc = "bin" /\ ti <= Len(timestamps)

(* The date the loop looks up is one of the known nights *)
KnownDate == \E k \in 1..Len(dates) : dates[k] = timestamps[ti].date

Cells(grid) == {<<y, x>> : y \in DOMAIN grid, x \in 0..(Len(dates) - 1)}

(* The grid has the dimensions it was built with *)
SameShape(grid) ==
    /\ DOMAIN grid = 0..(24 * (60 \div BINSIZE_MINUTES) - 1)
    /\ \A y \in DOMAIN grid : DOMAIN grid[y] = 0..(Len(dates) - 1)

(* new is old with the one cell c incremented by 1 *)
OneMore(old, new, c) == new = [old EXCEPT ![c[1]][c[2]] = old[c[1]][c[2]] + 1]

(* C11: with a pixel size that divides the hour, the row of a capture at   *)
(* hour:minute is hour * (60 / size) + floor(minute / size), it is the     *)
(* pixel that holds the minute of the day, it is a row of the grid, and it *)
(* is the row whose cell the increment goes to.                            *)
C11_RowIndex ==
    [][(Binning /\ 60 % BINSIZE_MINUTES = 0
          /\ timestamps[ti].hour \in 0..23 /\ timestamps[ti].minute \in 0..59)
        => LET hour == timestamps[ti].hour
               minute == timestamps[ti].minute
               row == hour * (60 \div BINSIZE_MINUTES) + (minute \div BINSIZE_MINUTES)
           IN  /\ row \in 0..(24 * (60 \div BINSIZE_MINUTES) - 1)
               /\ row * BINSIZE_MINUTES <= hour * 60 + minute
               /\ hour * 60 + minute < (row + 1) * BINSIZE_MINUTES
               /\ exc' = "none"
               /\ KnownDate => \E x \in DOMAIN heatmap[row] :
                                  OneMore(heatmap, heatmap', <<row, x>>)]_vars

(* 23:50 with a pixel of 15 minutes has been counted in row 95 *)
C11_Witness ==
    /\ pc = "bin"
    /\ BINSIZE_MINUTES = 15
    /\ ti = 2
    /\ timestamps[1].hour = 23
    /\ timestamps[1].minute = 50
    /\ heatmap[95][0] = 1

(* C12: a timestamp whose date is not among the known nights changes no    *)
(* cell and no dimension of the grid, and a timestamp whose date is found  *)
(* adds 1 to exactly one cell; either way the loop goes on to the next     *)
(* timestamp.  The night that is looked up is the calendar date of the     *)
(* timestamp, the key of dates.index().                                    *)
C12_LookupMissSoft ==
    [][Binning
        => /\ SameShape(heatmap)
           /\ SameShape(heatmap')
           /\ pc' = "bin"
           /\ exc' = "none"
           /\ ti' = ti + 1
           /\ dates' = dates
           /\ IF KnownDate
              THEN \E c \in Cells(heatmap) : OneMore(heatmap, heatmap', c)
              ELSE heatmap' = heatmap]_vars

(* A miss has been reported and the timestamp after it has been counted *)
C12_Witness ==
    /\ pc = "bin"
    /\ ti = 3
    /\ stderr = <<"ValueError">>
    /\ \A k \in 1..Len(dates) : dates[k] # timestamps[1].date
    /\ \E c \in Cells(heatmap) : heatmap[c[1]][c[2]] = 1

----------------------------------------------------------------------------
(* C13: the result of a call of anabat_duration() depends on the buffer    *)
(* alone: two calls on the same buffer in one run, whatever was decoded    *)
(* between them, end with the same intervals and the same duration, and    *)
(* whether a call ends in an error is fixed by the bytes of its buffer.    *)
C13_Deterministic ==
    /\ \A a \in 1..Len(outcomes) : \A b \in 1..Len(outcomes) :
          outcomes[a].buffer = outcomes[b].buffer
              => outcomes[a].result = outcomes[b].result
    /\ \A a \in 1..Len(outcomes) :
          LET inside == EndsInRecord(outcomes[a].buffer.bytes,
                                     outcomes[a].buffer.data_pointer)
          IN  /\ outcomes[a].result = <<"struct.error">> => inside
              /\ outcomes[a].result[1] = "return" => ~inside

(* A buffer has been decoded, then another one, then the first one again *)
C13_Witness ==
    /\ Len(outcomes) >= 3
    /\ outcomes[1].buffer = outcomes[3].buffer
    /\ outcomes[2].buffer # outcomes[1].buffer
    /\ outcomes[3].result[1] = "return"
    /\ Len(outcomes[3].result[2]) >= 2

----------------------------------------------------------------------------
(* The passes of the scan loop the call has begun: each pass that ended    *)
(* has stored an interval or printed a diagnostic, and the pass an         *)
(* exception ended is one more.                                            *)
Iterations == int_i + Len(stderr) + (IF pc = "aborted" THEN 1 ELSE 0)

(* The bytes from the start offset to the end of the buffer *)
BytesFromStart == Max(0, size - CurrentFile.data_pointer)

(* C14: every pass of the loop that ends moves the cursor forward, the     *)
(* passes and the emitted intervals are at most as many as the bytes from  *)
(* the start offset to the end of the buffer, and the loop stops: the call *)
(* returns with the cursor at or beyond the end of the buffer, or an       *)
(* exception ends it.                                                      *)
C14_Termination ==
    /\ [][(InLoop /\ pc' = "decode") => i' > i]_vars
    /\ []((pc \in {"decode", "aborted"})
            => (Iterations <= BytesFromStart /\ int_i <= BytesFromStart))
    /\ (pc = "decode") ~> (\/ pc = "aborted" /\ exc # "none"
                           \/ pc # "decode" /\ Returned /\ i >= size)

(* The loop has ended at the end of the buffer after three passes, one of  *)
(* which emitted nothing.                                                  *)
C14_Witness ==
    /\ pc = "decode"
    /\ i = size
    /\ int_i = 2
    /\ stderr = <<"leading_delta">>
    /\ BytesFromStart = 4

----------------------------------------------------------------------------
(* The known nights were built from the files of a flat directory *)
FlatMode == listing.subdirs = <<>>

(* C15: in flat-directory mode every timestamp is counted in the column of *)
(* its own night, the date of the timestamp minus 12 hours, and none is    *)
(* reported as a lookup miss.                                              *)
C15_NightColumn ==
    [][(FlatMode /\ Binning)
        => LET row == Row(timestamps[ti])
               night == Night(timestamps[ti])
           IN  /\ stderr' = stderr
               /\ \E x \in 0..(Len(dates) - 1) :
                      /\ dates[x + 1] = night
                      /\ OneMore(heatmap, heatmap', <<row, x>>)]_vars

----------------------------------------------------------------------------
(* The pass of the loop at the cursor has a whole record that emits an     *)
(* interval.                                                               *)
EmittingRecord ==
    /\ InLoop
    /\ Opcode <= 223
    /\ i + ExtraBytes(Opcode) < size
    /\ (Opcode <= 127 => int_i > 0)

(* C16: an interval is always stored at an index below the capacity of the *)
(* interval array, so that every record that emits an interval adds it to  *)
(* the sequence and the decoding goes on, however many came before.        *)
C16_WithinCapacity ==
    [][EmittingRecord
        => /\ int_i < Capacity
           /\ int_i' = int_i + 1
           /\ Len(intervals_us') = Len(intervals_us) + 1
           /\ pc' = "decode"
           /\ exc' = "none"]_vars

====
